---- MODULE Spec2Model ----
(***************************************************************************)
(* SSHFactory (twisted/conch/ssh/factory.py): host-key and moduli loading  *)
(* in startFactory, per-connection set-up in buildProtocol, the nearest    *)
(* Diffie-Hellman group lookup getDHPrime and the service gate getService. *)
(*                                                                         *)
(* Python values are tagged records: NoneValue is None, Dict(items) is a   *)
(* dict whose items <<key, value>> are listed in the dict's enumeration    *)
(* order.  The instance's attributes are the names in `attrs`; a mapping   *)
(* variable is meaningful only while its name is in `attrs`.               *)
(***************************************************************************)
EXTENDS Integers, Sequences, FiniteSets, TLC

\* ------------------------------------------------------------- bounds
\* longest default key-exchange list, most transports built, most bit
\* lengths in a moduli repository
MaxKexLen == 3
MaxConn == 2
MaxPrimeSizes == 2

\* ------------------------------------------------------- Python values
NoneValue == [type |-> "NoneType", items |-> <<>>]

Dict(items) == [type |-> "dict", items |-> items]

Keys(d) == [i \in 1..Len(d.items) |-> d.items[i][1]]

KeySet(d) == {d.items[i][1] : i \in 1..Len(d.items)}

Lookup(d, k) == LET i == CHOOSE j \in 1..Len(d.items) : d.items[j][1] = k
                IN  d.items[i][2]

\* Python truth value of None or of a dict: `not x` is ~Truthy(x)
Truthy(v) == v.type = "dict" /\ Len(v.items) > 0

\* ------------------------------------------------------ input domains
KeyDicts ==
    { Dict(<<>>),
      Dict(<< <<"ssh-rsa", "rsa-key">> >>),
      Dict(<< <<"ssh-rsa", "rsa-key">>, <<"ssh-dss", "dsa-key">> >>) }

BitLengths == {1024, 2048, 3072}

TargetBits == {2000, 2048}

AllTargetBits == {1000, 2000, 2048, 2560, 3000, 4096}

\* the list of (generator, prime) pairs stored under bit length b; a prime
\* is named by its bit length and its position in the moduli file
GroupsOf(b) == << <<2, <<b, 1>> >>, <<5, <<b, 2>> >> >>

BitOrders ==
    UNION { { s \in [1..n -> BitLengths] : \A i, j \in 1..n : i # j => s[i] # s[j] }
            : n \in 0..MaxPrimeSizes }

PrimeDictOf(s) == Dict([i \in 1..Len(s) |-> <<s[i], GroupsOf(s[i])>>])

AllPrimeDicts == { PrimeDictOf(s) : s \in BitOrders }

PrimeDicts ==
    { PrimeDictOf(<<>>), PrimeDictOf(<<2048>>),
      PrimeDictOf(<<1024, 3072>>), PrimeDictOf(<<3072, 1024>>) }

KexAlgorithms ==
    { "diffie-hellman-group-exchange-sha256",
      "diffie-hellman-group-exchange-sha1",
      "diffie-hellman-group14-sha1",
      "diffie-hellman-group1-sha1" }

DefaultKexAlgorithms ==
    << "diffie-hellman-group-exchange-sha256",
       "diffie-hellman-group-exchange-sha1",
       "diffie-hellman-group14-sha1",
       "diffie-hellman-group1-sha1" >>

KexLists == UNION { [1..n -> KexAlgorithms] : n \in 0..MaxKexLen }

ServiceNames == {"ssh-userauth", "ssh-connection", "unknown-service"}

Loaders == {"getPublicKeys", "getPrivateKeys", "getPrimes"}

\* ------------------------------------------------------------- state
VARIABLES
    attrs,          \* instance attributes that exist (what hasattr sees)
    publicKeys,     \* self.publicKeys
    privateKeys,    \* self.privateKeys
    primes,         \* self.primes
    services,       \* SSHFactory.services (class attribute)
    overridden,     \* the loader methods a subclass overrides
    defaultKex,     \* SSHServerTransport.supportedKeyExchanges (class attribute)
    conn,           \* the transports buildProtocol has returned, oldest first
    startedOk,      \* a startFactory call has returned normally
    result          \* the last call and what it returned or raised

vars == <<attrs, publicKeys, privateKeys, primes, services, overridden,
          defaultKex, conn, startedOk, result>>

Conns == 1..Len(conn)

NoResult == [op |-> "init", ret |-> "", service |-> "", avatar |-> FALSE,
             bits |-> 0, realBits |-> 0, group |-> <<>>, called |-> {}]

hasattr(name) == name \in attrs

\* what reading t.supportedKeyExchanges yields: the instance attribute when
\* buildProtocol assigned one, the class attribute otherwise
SupportedKeyExchanges(t) == IF t.hasOwnKex THEN t.ownKex ELSE defaultKex

ServicesTable ==
    Dict(<< <<"ssh-userauth", "SSHUserAuthServer">>,
            <<"ssh-connection", "SSHConnection">> >>)

\* a factory just constructed: no mapping attribute exists yet
InitFactory ==
    /\ attrs = {}
    /\ publicKeys = Dict(<<>>)
    /\ privateKeys = Dict(<<>>)
    /\ primes = Dict(<<>>)
    /\ startedOk = FALSE

InitClasses ==
    /\ services = ServicesTable
    /\ conn = <<>>
    /\ result = NoResult

Init ==
    /\ InitFactory
    /\ InitClasses
    /\ overridden \in SUBSET Loaders
    /\ defaultKex = DefaultKexAlgorithms

\* a started factory holding any moduli repository
InitDH ==
    /\ InitClasses
    /\ startedOk = TRUE
    /\ attrs = {"publicKeys", "privateKeys", "primes"}
    /\ publicKeys = Dict(<< <<"ssh-rsa", "rsa-key">> >>)
    /\ privateKeys = Dict(<< <<"ssh-rsa", "rsa-key">> >>)
    /\ primes \in AllPrimeDicts \cup {NoneValue}
    /\ overridden = Loaders
    /\ defaultKex = DefaultKexAlgorithms

InitKex ==
    /\ InitFactory
    /\ InitClasses
    /\ overridden = Loaders
    /\ defaultKex \in KexLists

\* ------------------------------------------------------ pre-seeding
\* an integrator or a test assigns a mapping before startFactory loads it
seedPublicKeys ==
    /\ ~hasattr("publicKeys")
    /\ \E m \in KeyDicts : publicKeys' = m
    /\ attrs' = attrs \cup {"publicKeys"}
    /\ result' = [NoResult EXCEPT !.op = "seedPublicKeys"]
    /\ UNCHANGED <<privateKeys, primes, services, overridden, defaultKex, conn, startedOk>>

seedPrivateKeys ==
    /\ ~hasattr("privateKeys")
    /\ \E m \in KeyDicts : privateKeys' = m
    /\ attrs' = attrs \cup {"privateKeys"}
    /\ result' = [NoResult EXCEPT !.op = "seedPrivateKeys"]
    /\ UNCHANGED <<publicKeys, primes, services, overridden, defaultKex, conn, startedOk>>

seedPrimes ==
    /\ ~hasattr("primes")
    /\ \E m \in PrimeDicts : primes' = m
    /\ attrs' = attrs \cup {"primes"}
    /\ result' = [NoResult EXCEPT !.op = "seedPrimes"]
    /\ UNCHANGED <<publicKeys, privateKeys, services, overridden, defaultKex, conn, startedOk>>

\* ------------------------------------------------------ the loaders
getPublicKeys(pk) ==
    IF "getPublicKeys" \in overridden
    THEN [exc |-> "", value |-> pk]
    ELSE [exc |-> "NotImplementedError", value |-> NoneValue]

getPrivateKeys(sk) ==
    IF "getPrivateKeys" \in overridden
    THEN [exc |-> "", value |-> sk]
    ELSE [exc |-> "NotImplementedError", value |-> NoneValue]

\* the base method has a docstring and no body: it returns None
getPrimes(pr) == IF "getPrimes" \in overridden THEN pr ELSE NoneValue

\* ---------------------------------------------------- startFactory
\* a start that reloads whether or not the attribute exists
NeedsLoadAlways(name) == TRUE

\* `if not hasattr(self, name)`
NeedsLoad(name) == ~hasattr(name)

\* `and` in place of `or`
NoHostKeysBoth(pub, priv) == ~Truthy(pub) /\ ~Truthy(priv)

\* `if not self.publicKeys or not self.privateKeys`
NoHostKeys(pub, priv) == ~Truthy(pub) \/ ~Truthy(priv)

\* what an overriding loader may return; one placeholder when it is not
\* called or not overridden
Loadable(name, loader, values) ==
    IF NeedsLoad(name) /\ loader \in overridden THEN values ELSE {Dict(<<>>)}

StartResult(ret, called) == [NoResult EXCEPT !.op = "startFactory", !.ret = ret, !.called = called]

startFactory ==
    /\ \E pk \in Loadable("publicKeys", "getPublicKeys", KeyDicts),
          sk \in Loadable("privateKeys", "getPrivateKeys", KeyDicts),
          pr \in Loadable("primes", "getPrimes", PrimeDicts) :
         LET loadPub  == NeedsLoad("publicKeys")
             gotPub   == getPublicKeys(pk)
             pub1     == IF loadPub THEN gotPub.value ELSE publicKeys
             attrs1   == IF loadPub THEN attrs \cup {"publicKeys"} ELSE attrs
             called1  == IF loadPub THEN {"getPublicKeys"} ELSE {}
             loadPriv == NeedsLoad("privateKeys")
             gotPriv  == getPrivateKeys(sk)
             priv2    == IF loadPriv THEN gotPriv.value ELSE privateKeys
             attrs2   == IF loadPriv THEN attrs1 \cup {"privateKeys"} ELSE attrs1
             called2  == IF loadPriv THEN called1 \cup {"getPrivateKeys"} ELSE called1
             loadPr   == NeedsLoad("primes")
             gotPr    == getPrimes(pr)
             primes3  == IF loadPr THEN gotPr ELSE primes
             attrs3   == IF loadPr THEN attrs2 \cup {"primes"} ELSE attrs2
             called3  == IF loadPr THEN called2 \cup {"getPrimes"} ELSE called2
         IN
         IF loadPub /\ gotPub.exc # ""
         THEN /\ result' = StartResult(gotPub.exc, called1)
              /\ UNCHANGED <<attrs, publicKeys, privateKeys, primes, startedOk>>
         ELSE IF loadPriv /\ gotPriv.exc # ""
         THEN /\ publicKeys' = pub1
              /\ attrs' = attrs1
              /\ result' = StartResult(gotPriv.exc, called2)
              /\ UNCHANGED <<privateKeys, primes, startedOk>>
         ELSE IF NoHostKeys(pub1, priv2)
         THEN /\ publicKeys' = pub1
              /\ privateKeys' = priv2
              /\ attrs' = attrs2
              /\ result' = StartResult("ConchError", called2)
              /\ UNCHANGED <<primes, startedOk>>
         ELSE /\ publicKeys' = pub1
              /\ privateKeys' = priv2
              /\ primes' = primes3
              /\ attrs' = attrs3
              /\ startedOk' = TRUE
              /\ result' = StartResult("ok", called3)
    /\ UNCHANGED <<services, overridden, defaultKex, conn>>

\* ---------------------------------------------------- buildProtocol
\* _kex.isFixedGroup: the group-exchange methods take their modulus from
\* the moduli repository, the numbered groups are built in
isFixedGroup(kexAlgorithm) ==
    kexAlgorithm \in {"diffie-hellman-group14-sha1", "diffie-hellman-group1-sha1"}

\* the comprehension without its condition
FixedGroupOnlyUnfiltered(supported) == supported

\* [kexAlgorithm for kexAlgorithm in supported if _kex.isFixedGroup(kexAlgorithm)]
FixedGroupOnly(supported) == SelectSeq(supported, isFixedGroup)

BuildResult(ret) == [NoResult EXCEPT !.op = "buildProtocol", !.ret = ret]

\* the same handler, assigning the narrowed list to the transport class
buildProtocolOnClass ==
    /\ Len(conn) < MaxConn
    /\ IF ~hasattr("privateKeys") \/ ~hasattr("primes")
       THEN /\ result' = BuildResult("AttributeError")
            /\ UNCHANGED <<conn, defaultKex>>
       ELSE /\ conn' = Append(conn, [supportedPublicKeys |-> Keys(privateKeys),
                                     hasOwnKex |-> FALSE, ownKex |-> <<>>,
                                     avatar |-> FALSE])
            /\ defaultKex' = IF ~Truthy(primes) THEN FixedGroupOnly(defaultKex) ELSE defaultKex
            /\ result' = BuildResult("transport")
    /\ UNCHANGED <<attrs, publicKeys, privateKeys, primes, services, overridden, startedOk>>

\* t is discarded when reading self.privateKeys or self.primes raises
buildProtocol ==
    /\ Len(conn) < MaxConn
    /\ IF ~hasattr("privateKeys") \/ ~hasattr("primes")
       THEN /\ result' = BuildResult("AttributeError")
            /\ UNCHANGED conn
       ELSE /\ conn' = Append(conn,
                  [supportedPublicKeys |-> Keys(privateKeys),
                   hasOwnKex |-> ~Truthy(primes),
                   ownKex |-> IF ~Truthy(primes) THEN FixedGroupOnly(defaultKex) ELSE <<>>,
                   avatar |-> FALSE])
            /\ result' = BuildResult("transport")
    /\ UNCHANGED <<attrs, publicKeys, privateKeys, primes, services, overridden,
                   defaultKex, startedOk>>

\* the authentication service marks the transport once the client has
\* proven its identity
authenticate(c) ==
    /\ ~conn[c].avatar
    /\ conn' = [conn EXCEPT ![c].avatar = TRUE]
    /\ result' = [NoResult EXCEPT !.op = "authenticate"]
    /\ UNCHANGED <<attrs, publicKeys, privateKeys, primes, services, overridden,
                   defaultKex, startedOk>>

\* ------------------------------------------------------- getDHPrime
Distance(x, bits) == IF x >= bits THEN x - bits ELSE bits - x

\* an insertion that places x before the elements at the same distance
RECURSIVE InsertBeforeTies(_, _, _)
InsertBeforeTies(x, sorted, bits) ==
    IF sorted = <<>> THEN <<x>>
    ELSE IF Distance(x, bits) <= Distance(Head(sorted), bits)
         THEN <<x>> \o sorted
         ELSE <<Head(sorted)>> \o InsertBeforeTies(x, Tail(sorted), bits)

\* list.sort is stable: x goes after every element that does not compare
\* greater, cmp(abs(x - bits), abs(y - bits)) being the comparison
RECURSIVE InsertByDistance(_, _, _)
InsertByDistance(x, sorted, bits) ==
    IF sorted = <<>> THEN <<x>>
    ELSE IF Distance(x, bits) < Distance(Head(sorted), bits)
         THEN <<x>> \o sorted
         ELSE <<Head(sorted)>> \o InsertByDistance(x, Tail(sorted), bits)

\* primesKeys.sort(key=cmp_to_key(...))
RECURSIVE SortByDistance(_, _)
SortByDistance(primesKeys, bits) ==
    IF primesKeys = <<>> THEN <<>>
    ELSE InsertByDistance(primesKeys[Len(primesKeys)],
                          SortByDistance(SubSeq(primesKeys, 1, Len(primesKeys) - 1), bits),
                          bits)

DHResult(bits, ret, realBits, group) ==
    [NoResult EXCEPT !.op = "getDHPrime", !.bits = bits, !.ret = ret,
                     !.realBits = realBits, !.group = group]

getDHPrime(bits) ==
    /\ IF ~hasattr("primes") \/ primes.type # "dict"
       THEN result' = DHResult(bits, "AttributeError", 0, <<>>)
       ELSE LET primesKeys == SortByDistance(Keys(primes), bits)
            IN  IF primesKeys = <<>>
                THEN result' = DHResult(bits, "IndexError", 0, <<>>)
                ELSE LET realBits == primesKeys[1]
                         groups   == Lookup(primes, realBits)
                     IN  \E i \in 1..Len(groups) :
                            result' = DHResult(bits, "group", realBits, groups[i])
    /\ UNCHANGED <<attrs, publicKeys, privateKeys, primes, services, overridden,
                   defaultKex, conn, startedOk>>

\* ------------------------------------------------------- getService
\* the lookup without the avatar test
ServiceUngated(table, avatar, service) ==
    IF service \in KeySet(table) THEN Lookup(table, service) ELSE "KeyError"

\* the gate without its ssh-userauth exemption
ServiceAvatarOnly(table, avatar, service) ==
    IF avatar
    THEN IF service \in KeySet(table) THEN Lookup(table, service) ELSE "KeyError"
    ELSE "None"

\* what the call returns or raises; falling off the end returns None
Service(table, avatar, service) ==
    IF service = "ssh-userauth" \/ avatar
    THEN IF service \in KeySet(table) THEN Lookup(table, service) ELSE "KeyError"
    ELSE "None"

getService(c, service) ==
    /\ result' = [NoResult EXCEPT !.op = "getService", !.service = service,
                                  !.avatar = conn[c].avatar,
                                  !.ret = Service(services, conn[c].avatar, service)]
    /\ UNCHANGED <<attrs, publicKeys, privateKeys, primes, services, overridden,
                   defaultKex, conn, startedOk>>

\* ---------------------------------------------------- specifications
Next ==
    \/ seedPublicKeys
    \/ seedPrivateKeys
    \/ seedPrimes
    \/ startFactory
    \/ buildProtocol
    \/ \E c \in Conns : authenticate(c)
    \/ \E bits \in TargetBits : getDHPrime(bits)
    \/ \E c \in Conns, service \in ServiceNames : getService(c, service)

Spec == Init /\ [][Next]_vars

NextKex ==
    \/ seedPrimes
    \/ startFactory
    \/ buildProtocol

SpecKex == InitKex /\ [][NextKex]_vars

NextDH == \E bits \in AllTargetBits : getDHPrime(bits)

SpecDH == InitDH /\ [][NextDH]_vars

\* ------------------------------------------------------------ claims
AbsDiff(a, b) == IF a >= b THEN a - b ELSE b - a

Elements(seq) == {seq[i] : i \in 1..Len(seq)}

\* C1: a session without identity that asks for any service other than
\* ssh-userauth, known or unknown, is answered None; so no call ever hands a
\* non-authentication service to a transport that has no avatar.
C1_AuthorizationGate ==
    (result.op = "getService" /\ ~result.avatar /\ result.service # "ssh-userauth")
        => result.ret = "None"

C1_Witness ==
    /\ result.op = "getService"
    /\ ~result.avatar
    /\ result.service = "ssh-connection"
    /\ result.ret = "None"

\* C2: a startFactory call that got both host-key mappings raises ConchError
\* exactly when one of them is empty; with both non-empty it returns normally
\* and leaves the moduli set, whether that is empty, None or populated.
C2_NoHostKeysIffEmpty ==
    result.op = "startFactory" =>
        LET loaded == {"publicKeys", "privateKeys"} \subseteq attrs
            empty  == Len(publicKeys.items) = 0 \/ Len(privateKeys.items) = 0
        IN  /\ result.ret = "ConchError" <=> (loaded /\ empty)
            /\ (loaded /\ ~empty) => (result.ret = "ok" /\ "primes" \in attrs /\ startedOk)
            /\ result.ret = "NotImplementedError" <=> ~loaded

C2_Witness ==
    /\ result.op = "startFactory"
    /\ result.ret = "ConchError"
    /\ Len(publicKeys.items) > 0
    /\ Len(privateKeys.items) = 0

\* C3: every transport buildProtocol returned advertises the default list
\* unchanged when the moduli repository is non-empty, and otherwise exactly
\* the fixed-group entries of the default list: each one kept, in the
\* original order and multiplicity, and nothing else.
IsFixedGroupSubsequence(out, in) ==
    \E f \in [1..Len(out) -> 1..Len(in)] :
        /\ \A i, j \in 1..Len(out) : i < j => f[i] < f[j]
        /\ \A i \in 1..Len(out) : out[i] = in[f[i]]
        /\ {f[i] : i \in 1..Len(out)} = {j \in 1..Len(in) : isFixedGroup(in[j])}

C3_KexFilter ==
    \A c \in Conns :
        IF Truthy(primes)
        THEN SupportedKeyExchanges(conn[c]) = defaultKex
        ELSE IsFixedGroupSubsequence(SupportedKeyExchanges(conn[c]), defaultKex)

C3_Witness ==
    \E c \in Conns :
        /\ ~Truthy(primes)
        /\ defaultKex = << "diffie-hellman-group14-sha1",
                           "diffie-hellman-group-exchange-sha1",
                           "diffie-hellman-group1-sha1" >>
        /\ SupportedKeyExchanges(conn[c]) = << "diffie-hellman-group14-sha1",
                                               "diffie-hellman-group1-sha1" >>

\* C4: on a non-empty repository getDHPrime returns a pair stored under a bit
\* length at minimal distance from the target, the first such bit length in
\* the repository's enumeration order; a repeated call with the same target
\* picks the same bit length.
C4_Nearest ==
    (result.op = "getDHPrime" /\ Truthy(primes)) =>
        /\ result.ret = "group"
        /\ LET ks == Keys(primes)
               d  == AbsDiff(result.realBits, result.bits)
           IN  \E i \in 1..Len(ks) :
                  /\ ks[i] = result.realBits
                  /\ \A j \in 1..Len(ks) : AbsDiff(ks[j], result.bits) >= d
                  /\ \A j \in 1..(i - 1) : AbsDiff(ks[j], result.bits) > d
                  /\ result.group \in Elements(primes.items[i][2])

C4_Repeatable ==
    (/\ result.op = "getDHPrime"
     /\ result'.op = "getDHPrime"
     /\ result'.bits = result.bits
     /\ primes' = primes) => result'.realBits = result.realBits

C4_NearestGroup == ([] C4_Nearest) /\ [][C4_Repeatable]_vars

C4_Witness ==
    /\ result.op = "getDHPrime"
    /\ result.bits = 2048
    /\ Keys(primes) = <<3072, 1024>>
    /\ result.realBits = 3072

\* C5: a session that has identity and asks for a name missing from the
\* service table is answered None, not an exception.
C5_UnknownServiceIsNone ==
    (result.op = "getService" /\ result.avatar /\ result.service \notin KeySet(services))
        => result.ret = "None"

\* C6: buildProtocol returns a transport only while both host-key mappings
\* exist and are non-empty.
C6_TransportNeedsHostKeys ==
    (result.op = "buildProtocol" /\ result.ret = "transport") =>
        /\ {"publicKeys", "privateKeys"} \subseteq attrs
        /\ Truthy(publicKeys)
        /\ Truthy(privateKeys)

\* C7: startFactory calls a loader only for a mapping that is still unset and
\* never replaces a mapping that is set; once a call has returned normally a
\* further call returns normally and changes none of the three mappings.
LoaderOf(name) ==
    CASE name = "publicKeys"  -> "getPublicKeys"
      [] name = "privateKeys" -> "getPrivateKeys"
      [] name = "primes"      -> "getPrimes"

C7_StartStep ==
    result'.op = "startFactory" =>
        /\ attrs \subseteq attrs'
        /\ \A name \in attrs : LoaderOf(name) \notin result'.called
        /\ "publicKeys" \in attrs => publicKeys' = publicKeys
        /\ "privateKeys" \in attrs => privateKeys' = privateKeys
        /\ "primes" \in attrs => primes' = primes
        /\ startedOk => /\ result'.ret = "ok"
                        /\ UNCHANGED <<attrs, publicKeys, privateKeys, primes>>

C7_SkipIfSet == [][C7_StartStep]_vars

C7_Witness ==
    /\ result.op = "startFactory"
    /\ result.ret = "ok"
    /\ result.called = {}
    /\ "getPrimes" \notin overridden
    /\ primes = NoneValue

\* C8: a startFactory call that reaches a loader no subclass overrides ends
\* in NotImplementedError, for each of the three loaders.
C8_MissingLoaderRaises ==
    result.op = "startFactory" =>
        \A loader \in result.called :
            loader \notin overridden => result.ret = "NotImplementedError"

\* C9: ssh-userauth is answered with the authentication service whether or
\* not the transport has an avatar, and ssh-connection is answered with the
\* connection service whenever it has one.
C9_WellKnownServices ==
    result.op = "getService" =>
        /\ result.service = "ssh-userauth" => result.ret = "SSHUserAuthServer"
        /\ (result.service = "ssh-connection" /\ result.avatar) => result.ret = "SSHConnection"

C9_Witness ==
    /\ result.op = "getService"
    /\ result.service = "ssh-userauth"
    /\ ~result.avatar
    /\ result.ret = "SSHUserAuthServer"

\* C10: a buildProtocol, getDHPrime or getService call changes none of the
\* three mappings, nor the service table, nor the transport class's default
\* key-exchange list, nor any transport that already exists (its fields and
\* the key-exchange list it advertises).
C10_ReadOnlyStep ==
    result'.op \in {"buildProtocol", "getDHPrime", "getService"} =>
        /\ UNCHANGED <<attrs, publicKeys, privateKeys, primes, services, defaultKex>>
        /\ Len(conn') >= Len(conn)
        /\ \A c \in Conns :
              /\ conn'[c] = conn[c]
              /\ (SupportedKeyExchanges(conn[c]))' = SupportedKeyExchanges(conn[c])

C10_ReadOnly == [][C10_ReadOnlyStep]_vars

C10_Witness ==
    /\ startedOk
    /\ result.op = "buildProtocol"
    /\ Len(conn) = 2
    /\ conn[1].avatar
    /\ conn[2].hasOwnKex
    /\ Len(conn[2].ownKex) < Len(defaultKex)
    /\ defaultKex = DefaultKexAlgorithms

====
